---- MODULE Spec2Model ----
(***************************************************************************)
(* A model of rust_todo (src/main.rs): the TodoList selection state        *)
(* machine (items + tui ListState.selected) and the run_app event loop.    *)
(*                                                                         *)
(* Five specifications share the variables:                                *)
(*   Spec       a TodoList made by TodoList::new(items), driven by         *)
(*              arbitrary calls of add / remove / next / previous /        *)
(*              unselec;                                                   *)
(*   SpecApp    run_app: TodoList::default() driven by terminal events,    *)
(*              recording the navigation keys and the toggle presses;      *)
(*   SpecLoop   the same run_app, recording the last event and frame;      *)
(*   SpecMain   main: terminal setup, run_app, terminal restore, exit;     *)
(*   SpecLayout the two Layout splits of ui over terminal sizes.           *)
(*                                                                         *)
(* Option<usize> is a sequence: None is <<>>, Some(i) is <<i>>.            *)
(* A usize is kept as its two's-complement residue around 0, so that       *)
(* usize::MAX is -1, usize::MAX - 1 is -2, ...; wrapping + and - are then  *)
(* the integer ones and the unsigned order is UGe below.                   *)
(***************************************************************************)
EXTENDS Integers, Sequences, FiniteSets, TLC

VARIABLES
    items,            \* TodoList.items : Vec<TodoItem>
    selected,         \* TodoList.state.selected : Option<usize>
    panicked,         \* the thread has panicked (unwinding; nothing runs after)
    overflow_checks,  \* build profile: TRUE = arithmetic overflow panics (debug)
    ui_config,        \* run_app's UiConfig {projects, typebox}
    pc,               \* position: "api" (Spec) or run_app's position (SpecApp)
    last,             \* history: the most recent TodoList call and the state before it
    hist,             \* history: the current run of consecutive navigation calls
    navkeys,          \* history: Down/Up/Left keys dispatched by run_app so far
    sels,             \* history: the selection after each of navkeys
    offset,           \* TodoList.state.offset : usize (tui's scroll position)
    err,              \* the io::Error run_app returned, named by the call that raised it
    term,             \* the terminal: raw mode, alternate screen, mouse capture
    proc,             \* main: res, what it printed, the process's exit status
    size,             \* f.size(): the terminal's width and height
    chunks,           \* ui's chunks and top_chunks of the last frame
    lastev,           \* history: the event run_app dispatched last, the state before it
    presses,          \* history: the number of End and of Home keys dispatched
    iter,             \* history: the steps of run_app's current loop iteration
    drawn,            \* history: the model state this iteration's frame was composed from
    trace             \* which of navkeys/sels, lastev, presses and drawn are recorded

\* What main and run_app add to a TodoList.
appvars == <<err, term, proc, size, chunks, lastev, presses, iter, drawn, trace>>

vars == <<items, selected, panicked, overflow_checks, ui_config, pc,
          last, hist, navkeys, sels, offset, appvars>>

(* ------------------------------ bounds -------------------------------- *)

\* Longest list the model builds.
MaxLen == 3
\* Length of the window of navigation calls kept in hist.
MaxHist == 3
\* Largest |residue| a selected index may take (reached only by wrapping
\* arithmetic on an empty list in a build without overflow checks).
SelCap == 3
\* Number of Down/Up/Left keys run_app is fed.
MaxKeys == 6
\* Number of End keys, and of Home keys, run_app is fed.
MaxPresses == 2
\* Largest terminal width and height the layout is computed for.
MaxSide == 20

(* ------------------------------ values -------------------------------- *)

None == <<>>
Some(i) == <<i>>

\* Unsigned >= on residues: residues < 0 stand for values near usize::MAX.
UGe(a, b) == IF (a < 0) = (b < 0) THEN a >= b ELSE a < 0

\* The TodoItem values lists are built from under Spec.
ItemValues ==
    { [is_done |-> FALSE, title |-> "a"], [is_done |-> TRUE, title |-> "b"] }

RECURSIVE SeqsUpTo(_, _)
SeqsUpTo(S, n) ==
    IF n = 0 THEN { <<>> }
    ELSE LET shorter == SeqsUpTo(S, n - 1)
         IN  shorter \cup { Append(s, x) : s \in { t \in shorter : Len(t) = n - 1 }, x \in S }

\* TodoList::default(): the six seed items.
TodoList_default_items ==
    << [is_done |-> FALSE, title |-> "Hello world"],
       [is_done |-> TRUE,  title |-> "Hello again"],
       [is_done |-> TRUE,  title |-> "Bye!!"],
       [is_done |-> FALSE, title |-> "A line here..."],
       [is_done |-> TRUE,  title |-> "What should i do?? \nthis?"],
       [is_done |-> TRUE,  title |-> "Uno\nDos\nTres!"] >>

(* ------------------------- TodoList, pure parts ------------------------ *)

\* Vec::remove(pos) on a vector with pos < len: the elements after pos shift left.
VecRemove(v, pos) ==
    [k \in 1..(Len(v) - 1) |-> IF k <= pos THEN v[k] ELSE v[k + 1]]

\* Mutant of next(): `i > len - 1` for `i >= len - 1`, so the last index
\* steps past the end instead of wrapping.
TodoList_next_i_late(sel, len) ==
    IF sel # None
    THEN IF sel[1] # len - 1 /\ UGe(sel[1], len - 1) THEN 0 ELSE sel[1] + 1
    ELSE 0

\* next(): the index computed by the match (indices are 0-based).
TodoList_next_i(sel, len) ==
    IF sel # None
    THEN IF UGe(sel[1], len - 1) THEN 0 ELSE sel[1] + 1
    ELSE 0

\* Mutant of previous(): index 0 stays at 0 (a saturating decrement).
TodoList_previous_i_saturating(sel, len) ==
    IF sel # None
    THEN IF sel[1] = 0 THEN 0 ELSE sel[1] - 1
    ELSE 0

\* Mutant of previous(): index 0 wraps to len, one past the last index.
TodoList_previous_i_len(sel, len) ==
    IF sel # None
    THEN IF sel[1] = 0 THEN len ELSE sel[1] - 1
    ELSE 0

\* previous(): the index computed by the match.
TodoList_previous_i(sel, len) ==
    IF sel # None
    THEN IF sel[1] = 0 THEN len - 1 ELSE sel[1] - 1
    ELSE 0

\* `self.items.len() - 1` is evaluated, and overflows, when the selection is
\* Some and the list is empty (next), or Some(0) and the list is empty (previous).
NextOverflows(sel, len) == sel # None /\ len = 0
PreviousOverflows(sel, len) == sel # None /\ sel[1] = 0 /\ len = 0

InCap(i) == -SelCap <= i /\ i <= SelCap

(* ---------------------- TodoList, state changes ----------------------- *)

\* Mutant of remove(): an out-of-range position is ignored silently.
TodoList_remove_ignoring(pos) ==
    IF pos >= Len(items)
    THEN UNCHANGED <<items, selected, panicked, offset>>
    ELSE /\ items' = VecRemove(items, pos)
         /\ UNCHANGED <<selected, panicked, offset>>

\* TodoList::remove(pos): Vec::remove panics when pos >= len and removes
\* nothing; the selection is not touched.
TodoList_remove(pos) ==
    IF pos >= Len(items)
    THEN /\ panicked' = TRUE
         /\ UNCHANGED <<items, selected, offset>>
    ELSE /\ items' = VecRemove(items, pos)
         /\ UNCHANGED <<selected, panicked, offset>>

\* Mutant of add(): the item is inserted at the head (Vec::insert(0, item)).
TodoList_add_front(item) ==
    /\ items' = <<item>> \o items
    /\ UNCHANGED <<selected, panicked, offset>>

\* TodoList::add(item): Vec::push.
TodoList_add(item) ==
    /\ items' = Append(items, item)
    /\ UNCHANGED <<selected, panicked, offset>>

\* TodoList::next().
TodoList_next ==
    IF NextOverflows(selected, Len(items)) /\ overflow_checks
    THEN /\ panicked' = TRUE
         /\ UNCHANGED <<items, selected, offset>>
    ELSE /\ selected' = Some(TodoList_next_i(selected, Len(items)))
         /\ UNCHANGED <<items, panicked, offset>>

\* TodoList::previous().
TodoList_previous ==
    IF PreviousOverflows(selected, Len(items)) /\ overflow_checks
    THEN /\ panicked' = TRUE
         /\ UNCHANGED <<items, selected, offset>>
    ELSE /\ selected' = Some(TodoList_previous_i(selected, Len(items)))
         /\ UNCHANGED <<items, panicked, offset>>

\* Mutant of unselec(): the selection is cleared only on a non-empty list.
TodoList_unselec_nonempty ==
    /\ selected' = IF Len(items) = 0 THEN selected ELSE None
    /\ offset' = IF Len(items) = 0 THEN offset ELSE 0
    /\ UNCHANGED <<items, panicked>>

\* TodoList::unselec(): ListState::select(None), which also rewinds the
\* scroll offset to 0.
TodoList_unselec ==
    /\ selected' = None
    /\ offset' = 0
    /\ UNCHANGED <<items, panicked>>

(* ------------------------------ history ------------------------------- *)

Call(op, arg) == [op |-> op, arg |-> arg, items |-> items, selected |-> selected]

\* hist keeps the last MaxHist navigation calls, each with the selection before it.
Push(h, e) == IF Len(h) < MaxHist THEN Append(h, e) ELSE Append(Tail(h), e)

Nav(op) ==
    /\ last' = Call(op, <<>>)
    /\ hist' = Push(hist, [op |-> op, selected |-> selected])

Mut(op, arg) ==
    /\ last' = Call(op, <<arg>>)
    /\ hist' = <<>>

(* ------------------------------ layout -------------------------------- *)

\* Layout::margin(3).
Margin == 3
\* Constraint::Percentage(90): the list's share of the height with the type box shown.
PctWithTypebox == 90
\* Constraint::Percentage(80): the list's share of the width with the projects panel shown.
PctWithProjects == 80
\* Constraint::Percentage(100).
PctAll == 100

Max(a, b) == IF a >= b THEN a ELSE b

Rect(x, y, w, h) == [x |-> x, y |-> y, width |-> w, height |-> h]

\* The area left inside a margin on every side; a side too short for its two
\* margins leaves 0.
Inner(area, m) ==
    Rect(area.x + m, area.y + m, Max(0, area.width - 2 * m), Max(0, area.height - 2 * m))

\* Layout::split of an area in two under <<Percentage(p), Percentage(100)>>:
\* the first chunk takes p percent of the split dimension in whole cells, the
\* second the cells that are left.
Split(area, direction, p) ==
    IF direction = "Vertical"
    THEN LET h == (p * area.height) \div 100
         IN  << Rect(area.x, area.y, area.width, h),
                Rect(area.x, area.y + h, area.width, area.height - h) >>
    ELSE LET w == (p * area.width) \div 100
         IN  << Rect(area.x, area.y, w, area.height),
                Rect(area.x + w, area.y, area.width - w, area.height) >>

\* Mutant of the vertical constraint: it reads config.projects.
ui_vertical_pct_projects(config) == IF config.projects THEN PctWithTypebox ELSE PctAll

\* ui: the first constraint of the vertical split.
ui_vertical_pct(config) == IF config.typebox THEN PctWithTypebox ELSE PctAll

\* ui: the first constraint of the horizontal split.
ui_horizontal_pct(config) == IF config.projects THEN PctWithProjects ELSE PctAll

\* ui: chunks (of f.size() inside the margin) and top_chunks (of chunks[0]).
ui_layout(sz, config) ==
    LET area == Rect(0, 0, sz.width, sz.height)
        v == Split(Inner(area, Margin), "Vertical", ui_vertical_pct(config))
        h == Split(v[1], "Horizontal", ui_horizontal_pct(config))
    IN  [chunks |-> v, top_chunks |-> h]

NoChunks == [chunks |-> <<>>, top_chunks |-> <<>>]

(* ---------------------- the state outside TodoList -------------------- *)

\* The terminal size run_app is given under SpecApp and SpecMain.
TermSize == [width |-> 80, height |-> 24]

TermReleased == [raw_mode |-> FALSE, alt_screen |-> FALSE, mouse_capture |-> FALSE]

NoEvent ==
    [ev |-> "none", items |-> <<>>, selected |-> None, offset |-> 0,
     ui_config |-> [projects |-> TRUE, typebox |-> TRUE], then |-> "none"]

NoFrame == [items |-> <<>>, selected |-> None, offset |-> 0, ui_config |-> <<>>]

\* Nothing of main or run_app has happened.
AppIdle ==
    /\ err = "none"
    /\ term = TermReleased
    /\ proc = [res |-> "none", printed |-> FALSE, exit |-> None]
    /\ size = TermSize
    /\ chunks = NoChunks
    /\ lastev = NoEvent
    /\ presses = [end |-> 0, home |-> 0]
    /\ iter = <<>>
    /\ drawn = NoFrame

(* ------------------ Spec: a TodoList under any calls ------------------ *)

\* TodoList::new(items): any list, nothing selected.
Init ==
    /\ items \in SeqsUpTo(ItemValues, MaxLen)
    /\ selected = None
    /\ panicked = FALSE
    /\ overflow_checks \in BOOLEAN
    /\ ui_config = [projects |-> TRUE, typebox |-> TRUE]
    /\ pc = "api"
    /\ last = [op |-> "new", arg |-> <<>>, items |-> items, selected |-> None]
    /\ hist = <<>>
    /\ navkeys = <<>>
    /\ sels = <<>>
    /\ offset = 0
    /\ AppIdle
    /\ trace = {}

Ready == pc = "api" /\ ~panicked

CallAdd ==
    /\ Ready
    /\ Len(items) < MaxLen
    /\ \E item \in ItemValues : TodoList_add(item) /\ Mut("add", item)
    /\ UNCHANGED <<overflow_checks, ui_config, pc, navkeys, sels, appvars>>

CallRemove ==
    /\ Ready
    /\ \E pos \in 0..MaxLen : TodoList_remove(pos) /\ Mut("remove", pos)
    /\ UNCHANGED <<overflow_checks, ui_config, pc, navkeys, sels, appvars>>

CallNext ==
    /\ Ready
    /\ TodoList_next
    /\ selected' # None => InCap(selected'[1])
    /\ Nav("next")
    /\ UNCHANGED <<overflow_checks, ui_config, pc, navkeys, sels, appvars>>

CallPrevious ==
    /\ Ready
    /\ TodoList_previous
    /\ selected' # None => InCap(selected'[1])
    /\ Nav("previous")
    /\ UNCHANGED <<overflow_checks, ui_config, pc, navkeys, sels, appvars>>

CallUnselec ==
    /\ Ready
    /\ TodoList_unselec
    /\ Nav("unselec")
    /\ UNCHANGED <<overflow_checks, ui_config, pc, navkeys, sels, appvars>>

Next == CallAdd \/ CallRemove \/ CallNext \/ CallPrevious \/ CallUnselec

Spec == Init /\ [][Next]_vars

(* ------------------- SpecApp: run_app's event loop -------------------- *)

\* Mutant of toggle: `*self = true`.
toggle_on(b) == TRUE

\* BoolToggleExt::toggle.
toggle(b) == ~b

\* run_app before its loop: UiConfig {true, true} and TodoList::default().
RunAppStart ==
    /\ items = TodoList_default_items
    /\ selected = None
    /\ panicked = FALSE
    /\ overflow_checks \in BOOLEAN
    /\ ui_config = [projects |-> TRUE, typebox |-> TRUE]
    /\ last = [op |-> "default", arg |-> <<>>, items |-> items, selected |-> None]
    /\ hist = <<>>
    /\ navkeys = <<>>
    /\ sels = <<>>
    /\ offset = 0
    /\ AppIdle

InitApp ==
    /\ RunAppStart
    /\ pc = "draw"
    /\ trace = {"keys", "presses"}

InitLoop ==
    /\ RunAppStart
    /\ pc = "draw"
    /\ trace = {"events", "presses", "frames"}

\* What render_stateful_widget(items, top_chunks[0], &mut data.state) may leave
\* in state.offset: the old value (nothing to draw), or a first visible row
\* that keeps the selected row, or row 0 when none is selected, on screen.
RenderOffsets ==
    {offset} \cup
    { o \in 0..(Len(items) - 1) : o <= (IF selected = None THEN 0 ELSE selected[1]) }

\* The model state a frame is composed from, recorded under "frames".
Frame ==
    IF "frames" \in trace
    THEN [items |-> items, selected |-> selected, offset |-> offset,
          ui_config |-> ui_config]
    ELSE NoFrame

\* Mutant of Draw: rendering with nothing selected selects the first row.
Draw_selecting ==
    /\ pc = "draw" /\ ~panicked
    /\ pc' = "read"
    /\ chunks' = ui_layout(size, ui_config)
    /\ offset' \in RenderOffsets
    /\ selected' = IF selected = None THEN Some(0) ELSE selected
    /\ iter' = <<"render">>
    /\ drawn' = Frame
    /\ UNCHANGED <<items, panicked, overflow_checks, ui_config, last, hist, navkeys,
                   sels, err, term, proc, size, lastev, presses, trace>>

\* terminal.draw(|f| ui(f, ui_config, &mut todo_list))?  ui takes ui_config by
\* value and only iterates data.items; of the list it hands tui &mut data.state,
\* through which the List widget writes the scroll offset and nothing else.
Draw ==
    /\ pc = "draw" /\ ~panicked
    /\ pc' = "read"
    /\ chunks' = ui_layout(size, ui_config)
    /\ offset' \in RenderOffsets
    /\ iter' = <<"render">>
    /\ drawn' = Frame
    /\ UNCHANGED <<items, selected, panicked, overflow_checks, ui_config, last, hist,
                   navkeys, sels, err, term, proc, size, lastev, presses, trace>>

\* terminal.draw(..)? returns Err, before or after ui has run: run_app returns it.
DrawFails ==
    /\ pc = "draw" /\ ~panicked
    /\ pc' = "err"
    /\ err' = "draw"
    /\ offset' \in RenderOffsets
    /\ iter' = <<>>
    /\ UNCHANGED <<items, selected, panicked, overflow_checks, ui_config,
                   last, hist, navkeys, sels, term, proc, size, chunks, lastev, presses,
                   drawn, trace>>

\* event::read()? returns Err: run_app returns it.
ReadFails ==
    /\ pc = "read"
    /\ pc' = "err"
    /\ err' = "read"
    /\ UNCHANGED <<items, selected, panicked, overflow_checks, ui_config,
                   last, hist, navkeys, sels, offset, term, proc, size, chunks,
                   lastev, presses, iter, drawn, trace>>

\* Mutant of Looped: the arm continues at event::read(), skipping the draw.
Looped_at_read == pc' = IF panicked' THEN "panic" ELSE "read"

\* After a match arm: back to the top of the loop, unless the arm panicked.
Looped == pc' = IF panicked' THEN "panic" ELSE "draw"

Recorded(key) ==
    IF "keys" \in trace
    THEN /\ Len(navkeys) < MaxKeys
         /\ navkeys' = Append(navkeys, key)
         /\ sels' = Append(sels, selected')
    ELSE UNCHANGED <<navkeys, sels>>

Pressed(key) ==
    IF "presses" \in trace
    THEN /\ presses[key] < MaxPresses
         /\ presses' = [presses EXCEPT ![key] = @ + 1]
    ELSE UNCHANGED presses

\* event::read() returned `ev` and the `if let` / match has dealt with it.
Dispatched(ev) ==
    /\ lastev' = IF "events" \in trace
                 THEN [ev |-> ev, items |-> items, selected |-> selected,
                       offset |-> offset, ui_config |-> ui_config, then |-> pc']
                 ELSE lastev
    /\ iter' = iter \o <<"poll", "dispatch">>
    /\ drawn' = NoFrame
    /\ UNCHANGED trace

\* Mutant of the Esc arm: it falls through to the next iteration.
KeyEsc_ignored ==
    /\ pc = "read"
    /\ pc' = "draw"
    /\ Dispatched("Esc")
    /\ UNCHANGED <<items, selected, panicked, overflow_checks, ui_config,
                   last, hist, navkeys, sels, offset, err, term, proc, size, chunks,
                   presses>>

\* KeyCode::Esc => return Ok(())
KeyEsc ==
    /\ pc = "read"
    /\ pc' = "ok"
    /\ Dispatched("Esc")
    /\ UNCHANGED <<items, selected, panicked, overflow_checks, ui_config,
                   last, hist, navkeys, sels, offset, err, term, proc, size, chunks,
                   presses>>

\* KeyCode::End => ui_config.projects.toggle()
KeyEnd ==
    /\ pc = "read"
    /\ ui_config' = [ui_config EXCEPT !.projects = toggle(@)]
    /\ Pressed("end")
    /\ pc' = "draw"
    /\ Dispatched("End")
    /\ UNCHANGED <<items, selected, panicked, overflow_checks,
                   last, hist, navkeys, sels, offset, err, term, proc, size, chunks>>

\* Mutant of the Home arm: it also clears the selection.
KeyHome_unselecting ==
    /\ pc = "read"
    /\ ui_config' = [ui_config EXCEPT !.typebox = toggle(@)]
    /\ Pressed("home")
    /\ TodoList_unselec
    /\ pc' = "draw"
    /\ Dispatched("Home")
    /\ UNCHANGED <<overflow_checks, last, hist, navkeys, sels, err, term, proc,
                   size, chunks>>

\* KeyCode::Home => ui_config.typebox.toggle()
KeyHome ==
    /\ pc = "read"
    /\ ui_config' = [ui_config EXCEPT !.typebox = toggle(@)]
    /\ Pressed("home")
    /\ pc' = "draw"
    /\ Dispatched("Home")
    /\ UNCHANGED <<items, selected, panicked, overflow_checks,
                   last, hist, navkeys, sels, offset, err, term, proc, size, chunks>>

\* Mutant of the Down arm: it calls previous(), as the Up arm does.
KeyDown_previous ==
    /\ pc = "read"
    /\ TodoList_previous
    /\ Looped
    /\ Recorded("Down")
    /\ Dispatched("Down")
    /\ UNCHANGED <<overflow_checks, ui_config, last, hist, err, term, proc, size,
                   chunks, presses>>

\* KeyCode::Down => todo_list.next()
KeyDown ==
    /\ pc = "read"
    /\ TodoList_next
    /\ Looped
    /\ Recorded("Down")
    /\ Dispatched("Down")
    /\ UNCHANGED <<overflow_checks, ui_config, last, hist, err, term, proc, size,
                   chunks, presses>>

\* KeyCode::Up => todo_list.previous()
KeyUp ==
    /\ pc = "read"
    /\ TodoList_previous
    /\ Looped
    /\ Recorded("Up")
    /\ Dispatched("Up")
    /\ UNCHANGED <<overflow_checks, ui_config, last, hist, err, term, proc, size,
                   chunks, presses>>

\* KeyCode::Left => todo_list.unselec()
KeyLeft ==
    /\ pc = "read"
    /\ TodoList_unselec
    /\ Looped
    /\ Recorded("Left")
    /\ Dispatched("Left")
    /\ UNCHANGED <<overflow_checks, ui_config, last, hist, err, term, proc, size,
                   chunks, presses>>

\* Mutant of the catch-all arm: any unbound key quits, as Esc does.
KeyOther_quitting ==
    /\ pc = "read"
    /\ pc' = "ok"
    /\ Dispatched("Other")
    /\ UNCHANGED <<items, selected, panicked, overflow_checks, ui_config,
                   last, hist, navkeys, sels, offset, err, term, proc, size, chunks,
                   presses>>

\* _ => (): a key with no binding.
KeyOther ==
    /\ pc = "read"
    /\ pc' = "draw"
    /\ Dispatched("Other")
    /\ UNCHANGED <<items, selected, panicked, overflow_checks, ui_config,
                   last, hist, navkeys, sels, offset, err, term, proc, size, chunks,
                   presses>>

\* event::read() returns an Event that is not Event::Key (mouse, resize):
\* the `if let` does not match.
NotKey ==
    /\ pc = "read"
    /\ pc' = "draw"
    /\ Dispatched("NotKey")
    /\ UNCHANGED <<items, selected, panicked, overflow_checks, ui_config,
                   last, hist, navkeys, sels, offset, err, term, proc, size, chunks,
                   presses>>

NextApp ==
    \/ Draw \/ DrawFails \/ ReadFails
    \/ KeyEsc \/ KeyEnd \/ KeyHome \/ KeyDown \/ KeyUp \/ KeyLeft \/ KeyOther
    \/ NotKey

SpecApp == InitApp /\ [][NextApp]_vars

(* ------------- SpecLoop: run_app, recording the last event ------------- *)

SpecLoop == InitLoop /\ [][NextApp]_vars

(* --------------------------- SpecMain: main ---------------------------- *)

InitMain ==
    /\ RunAppStart
    /\ pc = "enable_raw"
    /\ trace = {}

\* What main leaves alone outside run_app.
MainFrame ==
    UNCHANGED <<items, selected, panicked, overflow_checks, ui_config, last, hist,
                navkeys, sels, offset, err, size, chunks, lastev, presses, iter,
                drawn, trace>>

\* main returns: Ok(()) is exit status 0, Err(_) is printed by the runtime and
\* is exit status 1.
Exits(status) == proc' = [proc EXCEPT !.exit = Some(status)] /\ pc' = "exit"

\* enable_raw_mode()?
EnableRawMode ==
    /\ pc = "enable_raw"
    /\ term' = [term EXCEPT !.raw_mode = TRUE]
    /\ pc' = "enter"
    /\ UNCHANGED proc
    /\ MainFrame

EnableRawModeFails ==
    /\ pc = "enable_raw"
    /\ Exits(1)
    /\ UNCHANGED term
    /\ MainFrame

\* execute!(stdout, EnterAlternateScreen, EnableMouseCapture)?
EnterScreen ==
    /\ pc = "enter"
    /\ term' = [term EXCEPT !.alt_screen = TRUE, !.mouse_capture = TRUE]
    /\ pc' = "terminal_new"
    /\ UNCHANGED proc
    /\ MainFrame

\* The execute! fails at its first or second command, or at the flush.
EnterScreenFails ==
    /\ pc = "enter"
    /\ \E a \in BOOLEAN, m \in BOOLEAN :
           /\ m => a
           /\ term' = [term EXCEPT !.alt_screen = a, !.mouse_capture = m]
    /\ Exits(1)
    /\ MainFrame

\* Terminal::new(backend)?   then   let res = run_app(&mut terminal);
TerminalNew ==
    /\ pc = "terminal_new"
    /\ pc' = "draw"
    /\ UNCHANGED <<term, proc>>
    /\ MainFrame

TerminalNewFails ==
    /\ pc = "terminal_new"
    /\ Exits(1)
    /\ UNCHANGED term
    /\ MainFrame

\* run_app has returned into res;   disable_raw_mode()?
DisableRawMode ==
    /\ pc \in {"ok", "err"}
    /\ term' = [term EXCEPT !.raw_mode = FALSE]
    /\ proc' = [proc EXCEPT !.res = pc]
    /\ pc' = "leave"
    /\ MainFrame

DisableRawModeFails ==
    /\ pc \in {"ok", "err"}
    /\ proc' = [proc EXCEPT !.res = pc, !.exit = Some(1)]
    /\ pc' = "exit"
    /\ UNCHANGED term
    /\ MainFrame

\* execute!(terminal.backend_mut(), LeaveAlternateScreen, DisableMouseCapture)?
LeaveScreen ==
    /\ pc = "leave"
    /\ term' = [term EXCEPT !.alt_screen = FALSE, !.mouse_capture = FALSE]
    /\ pc' = "show_cursor"
    /\ UNCHANGED proc
    /\ MainFrame

LeaveScreenFails ==
    /\ pc = "leave"
    /\ \E a \in BOOLEAN, m \in BOOLEAN :
           /\ a => m
           /\ term' = [term EXCEPT !.alt_screen = a, !.mouse_capture = m]
    /\ Exits(1)
    /\ MainFrame

\* terminal.show_cursor()?;  if let Err(err) = res { println!(..) }  Ok(())
ShowCursor ==
    /\ pc = "show_cursor"
    /\ proc' = [proc EXCEPT !.printed = (proc.res = "err"), !.exit = Some(0)]
    /\ pc' = "exit"
    /\ UNCHANGED term
    /\ MainFrame

ShowCursorFails ==
    /\ pc = "show_cursor"
    /\ Exits(1)
    /\ UNCHANGED term
    /\ MainFrame

NextMain ==
    \/ EnableRawMode \/ EnableRawModeFails
    \/ EnterScreen \/ EnterScreenFails
    \/ TerminalNew \/ TerminalNewFails
    \/ NextApp
    \/ DisableRawMode \/ DisableRawModeFails
    \/ LeaveScreen \/ LeaveScreenFails
    \/ ShowCursor \/ ShowCursorFails

SpecMain == InitMain /\ [][NextMain]_vars

(* ------------------ SpecLayout: ui's Layout splits --------------------- *)

\* Any terminal size and any UiConfig; no frame composed yet.
InitLayout ==
    /\ items = TodoList_default_items
    /\ selected = None
    /\ panicked = FALSE
    /\ overflow_checks = FALSE
    /\ ui_config \in [projects : BOOLEAN, typebox : BOOLEAN]
    /\ pc = "layout"
    /\ last = [op |-> "default", arg |-> <<>>, items |-> items, selected |-> None]
    /\ hist = <<>>
    /\ navkeys = <<>>
    /\ sels = <<>>
    /\ offset = 0
    /\ err = "none"
    /\ term = TermReleased
    /\ proc = [res |-> "none", printed |-> FALSE, exit |-> None]
    /\ size \in [width : 0..MaxSide, height : 0..MaxSide]
    /\ chunks = NoChunks
    /\ lastev = NoEvent
    /\ presses = [end |-> 0, home |-> 0]
    /\ iter = <<>>
    /\ drawn = NoFrame
    /\ trace = {}

\* ui, lines 206-227: the two splits.
ComputeLayout ==
    /\ pc = "layout"
    /\ chunks' = ui_layout(size, ui_config)
    /\ pc' = "laid_out"
    /\ UNCHANGED <<items, selected, panicked, overflow_checks, ui_config, last, hist,
                   navkeys, sels, offset, err, term, proc, size, lastev, presses,
                   iter, drawn, trace>>

NextLayout == ComputeLayout

SpecLayout == InitLayout /\ [][NextLayout]_vars

(* ------------------------------ claims -------------------------------- *)

\* A selection that is none or an index of a list of length len.
Valid(sel, len) == sel = None \/ (0 <= sel[1] /\ sel[1] < len)

IsIndex(sel, len) == sel # None /\ 0 <= sel[1] /\ sel[1] < len

\* The index removed by, or the item added by, the most recent call.
LastArg == last.arg[1]

\* The most recent call returned (it did not panic).
Returned == ~panicked

\* C1: in every state reached from a new TodoList by add, remove, next,
\* previous and unselec, the selection is none or an index < items.len(), and
\* it is none whenever the list is empty.
C1_SelectionInRange == Valid(selected, Len(items))

\* C2: next or previous on an empty list with nothing selected leaves the
\* selection at none and does not fail.
C2_EmptyNavIsNoOp ==
    (last.op \in {"next", "previous"} /\ Len(last.items) = 0 /\ last.selected = None)
        => (selected = None /\ ~panicked)

\* What section 4.1 prescribes for a list of length n >= 1.
SpecNext(sel, n) == IF sel = None THEN Some(0) ELSE Some((sel[1] + 1) % n)
SpecPrevious(sel, n) == IF sel = None THEN Some(0) ELSE Some((sel[1] - 1 + n) % n)

\* C3: on a list of length N >= 1 with a valid selection, next maps none to 0
\* and i to (i + 1) mod N, previous maps none to 0 and i to (i - 1 + N) mod N;
\* the result is always an index, never none.
C3_NextPreviousModular ==
    LET n == Len(last.items)
    IN  (n >= 1 /\ Valid(last.selected, n)) =>
            /\ last.op = "next" =>
                   selected = SpecNext(last.selected, n) /\ IsIndex(selected, n) /\ Returned
            /\ last.op = "previous" =>
                   selected = SpecPrevious(last.selected, n) /\ IsIndex(selected, n) /\ Returned

\* C3's case: previous has wrapped index 0 to N - 1 on a list of two or more.
C3_Witness ==
    /\ last.op = "previous" /\ last.selected = Some(0) /\ Len(last.items) >= 2
    /\ selected = Some(Len(items) - 1)

\* C4: remove(pos) with pos < len clears the selection when pos is the selected
\* index, decrements it when pos is below it, and leaves it alone otherwise.
C4_RemoveAdjustsSelection ==
    (last.op = "remove" /\ LastArg < Len(last.items)) =>
        selected = IF last.selected = None THEN None
                   ELSE IF LastArg = last.selected[1] THEN None
                   ELSE IF LastArg < last.selected[1] THEN Some(last.selected[1] - 1)
                   ELSE last.selected

\* C5: remove(pos) with pos >= len fails (Vec::remove's out-of-range panic)
\* and removes no entry.
C5_RemoveOutOfRangeFails ==
    (last.op = "remove" /\ LastArg >= Len(last.items)) =>
        (panicked /\ items = last.items)

\* C5's case: an out-of-range remove on a non-empty list has been called.
C5_Witness ==
    /\ last.op = "remove" /\ LastArg >= Len(last.items) /\ Len(last.items) >= 1
    /\ panicked /\ items = last.items

\* The last n calls were all `op`, with no add or remove among them.
RunOf(op, n) ==
    /\ Len(hist) >= n
    /\ \A k \in (Len(hist) - n + 1)..Len(hist) : hist[k].op = op

\* The selection before the n-th most recent navigation call.
Before(n) == hist[Len(hist) - n + 1].selected

\* The last two calls were a then b.
Pair(a, b) ==
    /\ Len(hist) >= 2
    /\ hist[Len(hist) - 1].op = a
    /\ hist[Len(hist)].op = b

\* C6 as stated: on a list of length N >= 1, N calls of next from any valid
\* starting selection (none or an index) return the selection to where it was.
C6_NextNTimesIdentity ==
    \A n \in 1..MaxHist :
        (Len(items) = n /\ RunOf("next", n) /\ Valid(Before(n), n))
            => selected = Before(n)

\* C6 amended: on a list of length N >= 1, N calls of next from a starting
\* index 0..N-1 return the selection to that index; from none they end at
\* index N - 1.
C6_NextNTimesFromIndex ==
    \A n \in 1..MaxHist :
        (Len(items) = n /\ RunOf("next", n) /\ Valid(Before(n), n))
            => selected = IF Before(n) = None THEN Some(n - 1) ELSE Before(n)

\* C6's case: a full cycle of next over a list of two or more, from an index.
C6_Witness ==
    /\ Len(items) >= 2
    /\ RunOf("next", Len(items))
    /\ IsIndex(Before(Len(items)), Len(items))
    /\ selected = Before(Len(items))

\* C7 as stated: on a list of length N >= 1, next then previous, and previous
\* then next, from any valid starting selection return it to where it was.
C7_NextPreviousInverse ==
    (Len(items) >= 1 /\ (Pair("next", "previous") \/ Pair("previous", "next"))
                     /\ Valid(Before(2), Len(items)))
        => selected = Before(2)

\* C7 amended: from a starting index 0..N-1 both orders return to that index;
\* from none, next then previous ends at N - 1 and previous then next at
\* 1 mod N.
C7_NextPreviousInverseFromIndex ==
    LET n == Len(items)
    IN  (n >= 1 /\ Len(hist) >= 2 /\ Valid(Before(2), n)) =>
            /\ Pair("next", "previous") =>
                   selected = IF Before(2) = None THEN Some(n - 1) ELSE Before(2)
            /\ Pair("previous", "next") =>
                   selected = IF Before(2) = None THEN Some(1 % n) ELSE Before(2)

\* C7's case: previous then next from index 0 of a list of two or more (the
\* pair crosses the wrap in both directions).
C7_Witness ==
    /\ Len(items) >= 2
    /\ Pair("previous", "next")
    /\ Before(2) = Some(0)
    /\ Before(1) = Some(Len(items) - 1)
    /\ selected = Some(0)

\* C8: unselec sets the selection to none whatever it was, and unselec then
\* next yields index 0 whatever the selection was before unselec.
C8_UnselecThenNext ==
    /\ last.op = "unselec" => (selected = None /\ Returned)
    /\ Pair("unselec", "next") => (selected = Some(0) /\ Returned)

\* C8's case: unselec then next, starting from a selected index other than 0.
C8_Witness ==
    /\ Pair("unselec", "next")
    /\ Before(2) # None /\ Before(2) # Some(0)
    /\ Before(1) = None
    /\ selected = Some(0)

\* C9: add(item) appends at the tail: the length grows by one, the existing
\* entries keep their positions and contents, the selection is unchanged and,
\* if it was valid, still is.
C9_AddAppends ==
    last.op = "add" =>
        /\ Returned
        /\ Len(items) = Len(last.items) + 1
        /\ SubSeq(items, 1, Len(last.items)) = last.items
        /\ items[Len(items)] = LastArg
        /\ selected = last.selected
        /\ Valid(last.selected, Len(last.items)) => Valid(selected, Len(items))

\* C9's case: an item was added to a list of two distinct items with the
\* second one selected.
C9_Witness ==
    /\ last.op = "add"
    /\ Len(last.items) = 2 /\ last.items[1] # last.items[2]
    /\ last.selected = Some(1)
    /\ LastArg = last.items[1]
    /\ Len(items) = 3

\* The selection section 4.5 binds to a key, from the selection before it.
Bound(key, sel, n) ==
    IF key = "Down" THEN SpecNext(sel, n)
    ELSE IF key = "Up" THEN SpecPrevious(sel, n)
    ELSE None

\* The scenario of section 8 and the selections it passes through.
Scenario == <<"Down", "Down", "Down", "Up", "Left", "Down">>
ScenarioSelections == <<Some(0), Some(1), Some(2), Some(1), None, Some(0)>>

\* C10: from run_app's initial state (the 6 seed items, nothing selected)
\* every Down, Up and Left key changes the selection as next, previous and
\* clear prescribe, and Down, Down, Down, Up, Left, Down passes through
\* 0, 1, 2, 1, none, 0.
C10_KeysDriveSelection ==
    /\ ~panicked
    /\ Len(sels) = Len(navkeys)
    /\ selected = IF navkeys = <<>> THEN None ELSE sels[Len(sels)]
    /\ \A k \in 1..Len(navkeys) :
           sels[k] = Bound(navkeys[k], IF k = 1 THEN None ELSE sels[k - 1], Len(items))
    /\ \A k \in 1..Len(Scenario) :
           (Len(navkeys) >= k /\ SubSeq(navkeys, 1, k) = SubSeq(Scenario, 1, k))
               => SubSeq(sels, 1, k) = SubSeq(ScenarioSelections, 1, k)

\* C10's case: the whole scenario has been dispatched.
C10_Witness ==
    /\ navkeys = Scenario
    /\ sels = ScenarioSelections
    /\ selected = Some(0)
    /\ Len(items) = 6

\* The toggles after `p.end` End keys and `p.home` Home keys.
AfterPresses(p) == [projects |-> (p.end % 2 = 0), typebox |-> (p.home % 2 = 0)]

\* C11: the toggles start {true, true}; End inverts projects (the side panel)
\* and leaves typebox, Home inverts typebox (the input box) and leaves
\* projects; so the same key twice restores the toggles.
C11_TogglesFlip ==
    /\ lastev.ev = "none" => ui_config = [projects |-> TRUE, typebox |-> TRUE]
    /\ lastev.ev = "End" =>
           ui_config = [projects |-> ~lastev.ui_config.projects,
                        typebox |-> lastev.ui_config.typebox]
    /\ lastev.ev = "Home" =>
           ui_config = [projects |-> lastev.ui_config.projects,
                        typebox |-> ~lastev.ui_config.typebox]
    /\ ui_config = AfterPresses(presses)

\* C11's case: End has been pressed twice (and Home once) and the side panel
\* is shown again.
C11_Witness ==
    /\ lastev.ev = "End" /\ presses = [end |-> 2, home |-> 1]
    /\ ~lastev.ui_config.projects
    /\ ui_config = [projects |-> TRUE, typebox |-> FALSE]

\* C12: an event that is not a key event, and a key that is none of Esc, End,
\* Home, Down, Up, Left, change neither the entries, the selection nor the
\* toggles, and the loop goes on.
C12_UnboundEventsAreNoOps ==
    lastev.ev \in {"Other", "NotKey"} =>
        /\ items = lastev.items
        /\ selected = lastev.selected
        /\ ui_config = lastev.ui_config
        /\ lastev.then = "draw"
        /\ pc # "ok"

\* C12's case: a non-key event was dispatched with a row selected and the
\* side panel hidden, and the loop is back at its top.
C12_Witness ==
    /\ lastev.ev = "NotKey" /\ pc = "draw"
    /\ selected = Some(2) /\ ~ui_config.projects

\* C13: once raw mode has been enabled, every way main ends leaves raw mode
\* off, the alternate screen left and mouse capture off.
C13_TerminalReleasedOnExit == pc = "exit" => term = TermReleased

\* C14: a failure of terminal.draw or event::read in the loop ends the loop,
\* is printed, and the process exits with a non-zero status.
C14_LoopFailureExitsNonZero ==
    /\ err # "none" => pc \notin {"draw", "read"}
    /\ (pc = "exit" /\ err # "none") => (proc.printed /\ proc.exit # Some(0))

\* C15 as stated: the loop has ended when and only when the event dispatched
\* last is an Esc key; nothing else ends it.
C15_OnlyEscStops == (pc \in {"ok", "err"}) <=> (lastev.ev = "Esc")

\* C15 amended: the loop ends when and only when an Esc key is dispatched
\* (in that iteration, with Ok) or terminal.draw or event::read fails (with
\* that error); no other key or event ends it.
C15_OnlyEscOrFailureStops ==
    /\ pc \in {"draw", "read", "ok", "err"}
    /\ (pc = "ok") <=> (lastev.ev = "Esc")
    /\ (pc = "err") <=> (err # "none")
    /\ lastev.ev = "Esc" => lastev.then = "ok"
    /\ lastev.ev \notin {"Esc", "none"} => lastev.then = "draw"

\* C15's case: Esc was dispatched after some navigation and the loop ended.
C15_Witness ==
    /\ lastev.ev = "Esc" /\ lastev.then = "ok" /\ pc = "ok"
    /\ selected = Some(1) /\ err = "none"

IsPrefix(a, b) == Len(a) <= Len(b) /\ a = SubSeq(b, 1, Len(a))

C17_RenderKeepsAll ==
    pc = "read" =>
        drawn = [items |-> items, selected |-> selected, offset |-> offset,
                 ui_config |-> ui_config]

\* C17 amended: composing a frame changes neither the items, the selected
\* index nor the toggles; of the list state it may rewrite the scroll offset.
C17_RenderKeepsModel ==
    pc = "read" =>
        /\ drawn.items = items
        /\ drawn.selected = selected
        /\ drawn.ui_config = ui_config

\* C17's case: a frame composed with the last row selected and the side panel
\* hidden has scrolled the list.
C17_Witness ==
    /\ pc = "read"
    /\ drawn.selected = Some(5) /\ ~drawn.ui_config.projects
    /\ offset # drawn.offset

\* The interior of a W x H terminal: the margin off every side, not below 0.
Interior(sz) == [width |-> Max(0, sz.width - 2 * Margin),
                 height |-> Max(0, sz.height - 2 * Margin)]

\* n is p percent of d, in whole cells.
IsPercent(n, p, d) == 100 * n <= p * d /\ p * d < 100 * (n + 1)

Flip(config, field) == [config EXCEPT ![field] = ~@]

\* C18: for every terminal size, with both toggles false the top-left region
\* is the whole interior and the bottom and right regions are empty; with
\* both true the top region is 90% of the interior height and the left one
\* 80% of the top's width (in whole cells); typebox decides only the vertical
\* split and projects only the horizontal one.
C18_LayoutPercentages ==
    pc = "laid_out" =>
        LET in == Interior(size)
            top == chunks.chunks[1]
            bottom == chunks.chunks[2]
            left == chunks.top_chunks[1]
            right == chunks.top_chunks[2]
        IN  /\ top.width = in.width /\ left.height = top.height
            /\ top.height + bottom.height = in.height
            /\ left.width + right.width = in.width
            /\ IsPercent(top.height, IF ui_config.typebox THEN 90 ELSE 100, in.height)
            /\ IsPercent(left.width, IF ui_config.projects THEN 80 ELSE 100, top.width)
            /\ (~ui_config.typebox /\ ~ui_config.projects) =>
                   /\ left.width = in.width /\ left.height = in.height
                   /\ bottom.height = 0 /\ right.width = 0
            /\ ui_layout(size, Flip(ui_config, "projects")).chunks = chunks.chunks
            /\ ui_layout(size, Flip(ui_config, "typebox")).top_chunks[1].width = left.width

\* C18's case: both panels shown on a terminal whose interior is 14 x 14, so
\* that 90% and 80% are not whole cells.
C18_Witness ==
    /\ pc = "laid_out"
    /\ ui_config = [projects |-> TRUE, typebox |-> TRUE]
    /\ size = [width |-> 20, height |-> 20]
    /\ chunks.chunks[1].height = 12 /\ chunks.chunks[2].height = 2
    /\ chunks.top_chunks[1].width = 11 /\ chunks.top_chunks[2].width = 3

\* C19: whatever events run_app is fed, the items stay the six seed items and
\* the selection is none or an index 0..5; no dispatch panics.
C19_SeedsKeptSelectionInRange ==
    /\ items = TodoList_default_items
    /\ IsIndex(selected, 6) \/ selected = None
    /\ ~panicked /\ pc # "panic"

\* C19's case: Up has wrapped the selection from the first to the last seed item.
C19_Witness ==
    /\ navkeys = <<"Down", "Up">>
    /\ selected = Some(5)
    /\ items = TodoList_default_items

\* The selection after the keys ks, from nothing selected, on a list of n items.
RECURSIVE Replay(_, _)
Replay(ks, n) ==
    IF ks = <<>> THEN None
    ELSE Bound(ks[Len(ks)], Replay(SubSeq(ks, 1, Len(ks) - 1), n), n)

\* C20: End and Home change neither the selection nor the items, and Down, Up
\* and Left change no toggle: after any events the selection is the one its
\* Down/Up/Left subsequence gives and the toggles are given by the parity of
\* the End and Home presses.
C20_TogglesAndSelectionIndependent ==
    /\ selected = Replay(navkeys, Len(TodoList_default_items))
    /\ ui_config = AfterPresses(presses)
    /\ items = TodoList_default_items

\* C20's case: navigation keys and toggle keys have both been dispatched.
C20_Witness ==
    /\ Len(navkeys) = 3 /\ selected = Some(1)
    /\ presses = [end |-> 1, home |-> 2]
    /\ ui_config = [projects |-> FALSE, typebox |-> TRUE]

====
